---- MODULE Spec2Model ----
(***************************************************************************)
(* A model of bin/cmplr.ts: the argument parser, the source directory and  *)
(* entry point detectors, the compile pipeline of main (with its           *)
(* try/catch/finally), the manifest updater and the project scaffolder.    *)
(*                                                                         *)
(* Strings the code only compares are TLA+ strings.  A file name is the    *)
(* sequence of its dot-separated parts (<<"index","foo","ts">> is          *)
(* index.foo.ts), so that startsWith("index."), includes(".test."), the    *)
(* extension test and path.parse(f).name are computed as the code does.    *)
(***************************************************************************)
EXTENDS Integers, Sequences, FiniteSets, TLC

\* ------------------------------------------------------------------ bounds
\* the longest argument list of a run
MaxArgs == 2
\* the longest directory listing of the manifest-update specification
MaxFiles == 3

\* ----------------------------------------------------------- JS primitives
\* the JavaScript value undefined (an absent property, a missing argument)
Undef == "<undefined>"

\* truthiness of a string-or-undefined value: if (x)
Truthy(x) == x # Undef /\ x # ""

\* `${x}` in a template literal: undefined prints as the nine letters
TemplateStr(x) == IF x = Undef THEN "undefined" ELSE x

\* ------------------------------------------------------------- file names
\* file.startsWith("index.")
StartsWithIndexDot(file) == Len(file) >= 2 /\ file[1] = "index"

\* /\.(ts|tsx|js|jsx)$/.test(file)
HasSourceExt(file) == Len(file) >= 2 /\ file[Len(file)] \in {"ts", "tsx", "js", "jsx"}

\* file.includes(".test.") / file.includes(".spec."): an inner part equal to w
IncludesDotted(file, w) == \E i \in 2..(Len(file) - 1) : file[i] = w

\* path.parse(file).name: the name without its last extension.  A name with
\* no dot, or a dot file such as ".ts", has no extension and is kept whole.
BaseName(file) ==
    IF Len(file) <= 1 \/ (Len(file) = 2 /\ file[1] = "")
    THEN file
    ELSE SubSeq(file, 1, Len(file) - 1)

\* -------------------------------------------------------------- parseArgs
\* the tokens a bounded argument list is drawn from
Tokens ==
    {"create", "lib", "--dry-run", "--help", "--version", "--src-dir",
     "--out-dir", "--no-types", "--type-check", "--bogus"}

\* arg.startsWith("-")
StartsWithDash(t) == t \in {"--dry-run", "--help", "-h", "--version", "-v", "--src-dir",
                            "--out-dir", "--no-types", "--type-check", "--bogus"}

\* arg.startsWith("--")
StartsWithDashDash(t) == t \in {"--dry-run", "--help", "--version", "--src-dir",
                                "--out-dir", "--no-types", "--type-check", "--bogus"}

\* args[i] of a JavaScript array (0-based i): undefined past the end
ArrayAt(a, i) == IF i + 1 <= Len(a) THEN a[i + 1] ELSE Undef

\* the record parseArgs starts from; exited models process.exit(1) in the loop
DefaultArgs ==
    [command |-> "compile", dryRun |-> FALSE, help |-> FALSE, version |-> FALSE,
     srcDir |-> Undef, outDir |-> "dist", noTypes |-> FALSE, typeCheck |-> FALSE,
     projectName |-> Undef, exited |-> FALSE]

\* the subcommand prefix: [parsed, rest] after the splice
ParseSubcommand(a) ==
    IF Len(a) > 0 /\ ~StartsWithDash(a[1]) /\ a[1] = "create"
    THEN LET name == IF Len(a) > 1 /\ ~StartsWithDash(a[2]) THEN a[2] ELSE Undef
             drop == IF Truthy(name) THEN 2 ELSE 1
         IN [parsed |-> [DefaultArgs EXCEPT !.command = "create", !.projectName = name],
             rest   |-> SubSeq(a, drop + 1, Len(a))]
    ELSE [parsed |-> DefaultArgs, rest |-> a]

\* the for loop over the remaining tokens, from 0-based index i
RECURSIVE ParseLoop(_, _, _)
ParseLoop(a, i, parsed) ==
    IF i >= Len(a) THEN parsed
    ELSE LET arg == a[i + 1] IN
      CASE arg = "--dry-run"         -> ParseLoop(a, i + 1, [parsed EXCEPT !.dryRun = TRUE])
        [] arg \in {"--help", "-h"}    -> ParseLoop(a, i + 1, [parsed EXCEPT !.help = TRUE])
        [] arg \in {"--version", "-v"} -> ParseLoop(a, i + 1, [parsed EXCEPT !.version = TRUE])
        [] arg = "--src-dir"         -> ParseLoop(a, i + 2, [parsed EXCEPT !.srcDir = ArrayAt(a, i + 1)])
        [] arg = "--out-dir"         -> ParseLoop(a, i + 2, [parsed EXCEPT !.outDir = ArrayAt(a, i + 1)])
        [] arg = "--no-types"        -> ParseLoop(a, i + 1, [parsed EXCEPT !.noTypes = TRUE])
        [] arg = "--type-check"      -> ParseLoop(a, i + 1, [parsed EXCEPT !.typeCheck = TRUE])
        [] OTHER -> IF StartsWithDashDash(arg)
                    THEN [parsed EXCEPT !.exited = TRUE]
                    ELSE ParseLoop(a, i + 1, parsed)

parseArgs(a) == LET s == ParseSubcommand(a) IN ParseLoop(s.rest, 0, s.parsed)

\* the sequences of at most n elements of S
RECURSIVE SeqsUpTo(_, _)
SeqsUpTo(S, n) ==
    IF n = 0 THEN {<<>>}
    ELSE LET shorter == SeqsUpTo(S, n - 1)
         IN shorter \cup {Append(q, x) : q \in shorter, x \in S}

Argvs == SeqsUpTo(Tokens, MaxArgs)

\* ------------------------------------------------------------- filesystem
\* fileExists(p): p names something in the working directory.  dirs holds
\* the names that exist; fs.access(undefined) throws and is caught: false.
fileExists(p, dirs) == p \in dirs

\* readTSConfig: the configuration file parsed, or null (absent or malformed)
NoTSConfig == [present |-> FALSE, rootDir |-> Undef]
readTSConfig(file) == IF file.state = "valid" THEN [present |-> TRUE, rootDir |-> file.rootDir]
                      ELSE NoTSConfig

\* a mutant of detectSourceDir: the configuration hint is consulted first
detectSourceDir_HintFirst(tsconfig, srcDirArg, dirs) ==
    IF tsconfig.present /\ Truthy(tsconfig.rootDir) THEN tsconfig.rootDir
    ELSE IF Truthy(srcDirArg) THEN srcDirArg
    ELSE IF fileExists("src", dirs) THEN "src"
    ELSE IF fileExists("lib", dirs) THEN "lib"
    ELSE IF fileExists("bin", dirs) THEN "bin"
    ELSE "src"

detectSourceDir(tsconfig, srcDirArg, dirs) ==
    IF Truthy(srcDirArg) THEN srcDirArg
    ELSE IF tsconfig.present /\ Truthy(tsconfig.rootDir) THEN tsconfig.rootDir
    ELSE IF fileExists("src", dirs) THEN "src"
    ELSE IF fileExists("lib", dirs) THEN "lib"
    ELSE IF fileExists("bin", dirs) THEN "bin"
    ELSE "src"

\* the filter of detectEntryPoints over one directory entry
IsEntryPoint(dirent) ==
    /\ dirent.isFile
    /\ HasSourceExt(dirent.name)
    /\ ~IncludesDotted(dirent.name, "test")
    /\ ~IncludesDotted(dirent.name, "spec")

\* dirents.filter(...).map(name).filter(...), in enumeration order
RECURSIVE EntryNames(_)
EntryNames(dirents) ==
    IF dirents = <<>> THEN <<>>
    ELSE IF IsEntryPoint(Head(dirents))
         THEN <<Head(dirents).name>> \o EntryNames(Tail(dirents))
         ELSE EntryNames(Tail(dirents))

\* a mutant of detectEntryPoints: a missing directory lists as empty
detectEntryPoints_NoThrow(srcDir, dirs, dirents) ==
    IF ~fileExists(srcDir, dirs) THEN [threw |-> FALSE, files |-> <<>>]
    ELSE [threw |-> FALSE, files |-> EntryNames(dirents)]

\* detectEntryPoints: throws when the directory is missing; both branches of
\* the index test return the same filtered list
detectEntryPoints(srcDir, dirs, dirents) ==
    IF ~fileExists(srcDir, dirs) THEN [threw |-> TRUE, files |-> <<>>]
    ELSE [threw |-> FALSE, files |-> EntryNames(dirents)]

\* ---------------------------------------------------------------- manifest
\* `./${outDir}/${sub}/${baseName}.${ext}` as the sequence of its parts
OutPath(outDir, sub, baseName, ext) == <<".", TemplateStr(outDir), sub>> \o baseName \o ext

\* an absent string property of the manifest
NoPath == <<>>

\* an export map with no key
EmptyExports == [k \in {} |-> [import |-> NoPath, require |-> NoPath]]

\* a mutant of ExportEntry: the types target is written whatever the flag
ExportEntry_AlwaysTypes(outDir, baseName, noTypes) ==
    [import  |-> OutPath(outDir, "esm", baseName, <<"js">>),
     require |-> OutPath(outDir, "cjs", baseName, <<"js">>),
     types   |-> OutPath(outDir, "types", baseName, <<"d", "ts">>)]

\* one entry of the export map: { import, require, ...(noTypes ? {} : { types }) }
ExportEntry(outDir, baseName, noTypes) ==
    IF noTypes
    THEN [import  |-> OutPath(outDir, "esm", baseName, <<"js">>),
          require |-> OutPath(outDir, "cjs", baseName, <<"js">>)]
    ELSE [import  |-> OutPath(outDir, "esm", baseName, <<"js">>),
          require |-> OutPath(outDir, "cjs", baseName, <<"js">>),
          types   |-> OutPath(outDir, "types", baseName, <<"d", "ts">>)]

\* baseName === "index" ? "." : `./${baseName}`
ExportKey(baseName) == IF baseName = <<"index">> THEN <<".">> ELSE <<"./">> \o baseName

\* packageJson.exports after the forEach over the first n entry points: a
\* later entry with the same key overwrites the earlier one
RECURSIVE ExportsOf(_, _, _, _)
ExportsOf(entryPoints, n, outDir, noTypes) ==
    IF n = 0 THEN EmptyExports
    ELSE LET prev     == ExportsOf(entryPoints, n - 1, outDir, noTypes)
             baseName == BaseName(entryPoints[n])
             key      == ExportKey(baseName)
         IN [k \in DOMAIN prev \cup {key} |->
               IF k = key THEN ExportEntry(outDir, baseName, noTypes) ELSE prev[k]]

\* entryPoints.find((e) => e.startsWith("index.")): its 1-based index, 0 if none
RECURSIVE FindIndexEntry(_, _)
FindIndexEntry(entryPoints, i) ==
    IF i > Len(entryPoints) THEN 0
    ELSE IF StartsWithIndexDot(entryPoints[i]) THEN i
    ELSE FindIndexEntry(entryPoints, i + 1)

\* a mutant of IsSingleEntry: the count alone decides
IsSingleEntry_CountOnly(entryPoints) == Len(entryPoints) = 1

\* entryPoints.length === 1 && entryPoints[0].startsWith("index.")
IsSingleEntry(entryPoints) == Len(entryPoints) = 1 /\ StartsWithIndexDot(entryPoints[1])

\* the files field: created, appended to, or left alone
UpdateFiles(pkg, outDir) ==
    IF ~pkg.hasFiles THEN [pkg EXCEPT !.hasFiles = TRUE, !.files = <<outDir>>]
    ELSE IF \A i \in 1..Len(pkg.files) : pkg.files[i] # outDir
         THEN [pkg EXCEPT !.files = Append(pkg.files, outDir)]
         ELSE pkg

\* main, module and (unless noTypes) types from one base name
SetMainFields(pkg, outDir, baseName, noTypes) ==
    [pkg EXCEPT !.main   = OutPath(outDir, "cjs", baseName, <<"js">>),
                !.module = OutPath(outDir, "esm", baseName, <<"js">>),
                !.types  = IF noTypes THEN pkg.types
                           ELSE OutPath(outDir, "types", baseName, <<"d", "ts">>)]

\* updatePackageJsonExports on the manifest pkg: the manifest as written, or
\* unchanged when there is none (a warning) or when the update throws
\* (path.parse(undefined) on an empty list, before anything is written)
updatePackageJsonExports(entryPoints, outDir, noTypes, pkg) ==
    IF ~pkg.exists THEN [threw |-> FALSE, wrote |-> FALSE, branch |-> "skip", pkg |-> pkg]
    ELSE IF IsSingleEntry(entryPoints)
    THEN LET baseName == BaseName(entryPoints[1])
             p1 == SetMainFields(pkg, outDir, baseName, noTypes)
             p2 == [p1 EXCEPT !.exports =
                       [k \in {<<".">>} |-> ExportEntry(outDir, baseName, noTypes)]]
         IN [threw |-> FALSE, wrote |-> TRUE, branch |-> "single",
             pkg |-> UpdateFiles(p2, outDir)]
    ELSE IF Len(entryPoints) = 0
    THEN [threw |-> TRUE, wrote |-> FALSE, branch |-> "multi", pkg |-> pkg]
    ELSE LET found     == FindIndexEntry(entryPoints, 1)
             mainEntry == IF found # 0 THEN entryPoints[found] ELSE entryPoints[1]
             p1 == [pkg EXCEPT !.exports =
                       ExportsOf(entryPoints, Len(entryPoints), outDir, noTypes)]
             p2 == SetMainFields(p1, outDir, BaseName(mainEntry), noTypes)
         IN [threw |-> FALSE, wrote |-> TRUE, branch |-> "multi",
             pkg |-> UpdateFiles(p2, outDir)]

\* a manifest file with the given prior types and files fields
Manifest(types, hasFiles, files) ==
    [exists |-> TRUE, main |-> NoPath, module |-> NoPath, types |-> types,
     exports |-> EmptyExports, hasFiles |-> hasFiles, files |-> files]

NoManifest ==
    [exists |-> FALSE, main |-> NoPath, module |-> NoPath, types |-> NoPath,
     exports |-> EmptyExports, hasFiles |-> FALSE, files |-> <<>>]

\* the manifests a run may start with
Manifests ==
    {NoManifest,
     Manifest(NoPath, FALSE, <<>>),
     Manifest(<<".", "old", "d", "ts">>, TRUE, <<"dist">>),
     Manifest(NoPath, TRUE, <<"lib">>)}

\* the manifests a compile run may start with
RunManifests == Manifests \ {Manifest(NoPath, TRUE, <<"lib">>)}

\* ------------------------------------------------------- createSWCConfig
\* the files directly in srcDir, re-listed; none when the directory is gone
ListedFiles(srcDir, dirs, dirents) ==
    IF fileExists(srcDir, dirs)
    THEN {dirents[i].name : i \in {j \in 1..Len(dirents) : dirents[j].isFile}}
    ELSE {}

\* the synthesized compiler configuration (the fields set from the listing
\* and the requested module format)
createSWCConfig(tsconfig, moduleType, srcDir, dirs, dirents) ==
    LET files == ListedFiles(srcDir, dirs, dirents)
        EndsWith(f, e) == Len(f) >= 2 /\ f[Len(f)] = e
    IN [syntax |-> IF \E f \in files : EndsWith(f, "ts") \/ EndsWith(f, "tsx")
                   THEN "typescript" ELSE "ecmascript",
        tsx    |-> \E f \in files : EndsWith(f, "tsx"),
        jsx    |-> \E f \in files : EndsWith(f, "jsx") \/ EndsWith(f, "tsx"),
        module |-> moduleType]

\* ------------------------------------------------------------------ state
VARIABLES
    argv,          \* process.argv.slice(2)
    args,          \* the parsed CLI request
    pc,            \* the statement of main (or createProject) about to run
    exitCode,      \* the exit code the process ends with (read once pc is terminal)
    tsconfigFile,  \* tsconfig.json on disk
    tsconfig,      \* the value readTSConfig returned
    dirs,          \* the directories that exist in the working directory
    dirents,       \* the listing of the source directory
    srcDir,        \* the resolved source directory
    entryPoints,   \* the detected entry points
    outTree,       \* <<directory, subdirectory>> pairs holding output
    tempDir,       \* the scratch directory .temp and its config files
    manifest,      \* package.json in the working directory
    steps,         \* the pipeline steps run so far, each with its outcome
    start,         \* the filesystem as the run found it
    update,        \* the branch the manifest update took
    cwd,           \* process.cwd()
    project        \* the scaffold: what exists in the project directory

vars == <<argv, args, pc, exitCode, tsconfigFile, tsconfig, dirs, dirents, srcDir,
          entryPoints, outTree, tempDir, manifest, steps, start, update, cwd, project>>

\* ------------------------------------------------------------ environment
TSConfigFiles ==
    {[state |-> "absent", rootDir |-> Undef],
     [state |-> "malformed", rootDir |-> Undef],
     [state |-> "valid", rootDir |-> Undef],
     [state |-> "valid", rootDir |-> "lib"]}

\* the working directories a compile run may start in
DirSets == {{}, {"src"}, {"lib", "dist"}, {"src", "lib", "dist"}}

File(name) == [name |-> name, isFile |-> TRUE]
Dir(name) == [name |-> name, isFile |-> FALSE]

\* the source directory listings of a compile run
Listings ==
    {<<>>,
     <<File(<<"index", "ts">>)>>,
     <<File(<<"utils", "ts">>), File(<<"index", "ts">>), File(<<"index", "test", "ts">>)>>,
     <<File(<<"index", "test", "ts">>), Dir(<<"helpers">>)>>}

NoTemp == [exists |-> FALSE, configs |-> {}]

\* what createProject finds in the project directory
NoProject == [dirExists |-> FALSE, libExists |-> FALSE, manifest |-> "absent",
              tsconfigExists |-> FALSE, indexExists |-> FALSE, testExists |-> FALSE]

\* the project directories createProject may find
Projects(projectName) ==
    LET full == [dirExists |-> TRUE, libExists |-> TRUE, manifest |-> "valid",
                 tsconfigExists |-> TRUE, indexExists |-> TRUE, testExists |-> TRUE]
    IN {[NoProject EXCEPT !.dirExists = ~Truthy(projectName)],
        [NoProject EXCEPT !.dirExists = TRUE],
        full,
        [full EXCEPT !.manifest = "malformed"],
        [full EXCEPT !.tsconfigExists = FALSE, !.testExists = FALSE]}

\* main's path for a parsed request
IsCompileRun(a) == ~a.exited /\ ~a.help /\ ~a.version /\ a.command = "compile"
IsCreateRun(a) == ~a.exited /\ ~a.help /\ ~a.version /\ a.command = "create"

\* ------------------------------------------------------------------- Init
\* The process has its argument list and finds a filesystem.  The parts of
\* the filesystem a run never reads (the project skeleton in a compile run,
\* the source tree in a create run) are left at one value.
Init ==
    /\ argv \in Argvs
    /\ args = DefaultArgs
    /\ pc = "parseArgs"
    /\ exitCode = 0
    /\ IF IsCompileRun(parseArgs(argv))
       THEN /\ tsconfigFile \in TSConfigFiles
            /\ dirs \in DirSets
            /\ dirents \in Listings
            /\ manifest \in RunManifests
       ELSE /\ tsconfigFile = [state |-> "absent", rootDir |-> Undef]
            /\ dirs = {}
            /\ dirents = <<>>
            /\ manifest = NoManifest
    /\ IF IsCreateRun(parseArgs(argv))
       THEN project \in Projects(parseArgs(argv).projectName)
       ELSE project = NoProject
    /\ tsconfig = NoTSConfig
    /\ srcDir = Undef
    /\ entryPoints = <<>>
    /\ outTree = {<<d, "old">> : d \in dirs \cap {"dist"}}
    /\ tempDir = NoTemp
    /\ steps = <<>>
    /\ start = [dirs |-> dirs, outTree |-> {<<d, "old">> : d \in dirs \cap {"dist"}},
                manifest |-> manifest, cwd |-> "."]
    /\ update = "none"
    /\ cwd = "."

\* ------------------------------------------------------------ main: entry
\* const args = parseArgs(); an unknown option ends the process with 1
ParseArgs ==
    /\ pc = "parseArgs"
    /\ args' = parseArgs(argv)
    /\ IF args'.exited
       THEN pc' = "exited" /\ exitCode' = 1
       ELSE pc' = "dispatch" /\ exitCode' = exitCode
    /\ UNCHANGED <<argv, tsconfigFile, tsconfig, dirs, dirents, srcDir, entryPoints,
                   outTree, tempDir, manifest, steps, start, update, cwd, project>>

\* if (args.help) { showHelp(args.command); return; }
ShowHelp ==
    /\ pc = "dispatch"
    /\ args.help
    /\ pc' = "done"
    /\ exitCode' = 0
    /\ UNCHANGED <<argv, args, tsconfigFile, tsconfig, dirs, dirents, srcDir, entryPoints,
                   outTree, tempDir, manifest, steps, start, update, cwd, project>>

\* if (args.version) { await showVersion(); return; }
ShowVersion ==
    /\ pc = "dispatch"
    /\ ~args.help /\ args.version
    /\ pc' = "done"
    /\ exitCode' = 0
    /\ UNCHANGED <<argv, args, tsconfigFile, tsconfig, dirs, dirents, srcDir, entryPoints,
                   outTree, tempDir, manifest, steps, start, update, cwd, project>>

\* if (args.command === "create") { await createProject(args.projectName); return; }
EnterCreate ==
    /\ pc = "dispatch"
    /\ ~args.help /\ ~args.version /\ args.command = "create"
    /\ pc' = "createDirs"
    /\ UNCHANGED <<argv, args, exitCode, tsconfigFile, tsconfig, dirs, dirents, srcDir,
                   entryPoints, outTree, tempDir, manifest, steps, start, update, cwd,
                   project>>

\* const tsconfig = await readTSConfig();
ReadTSConfig ==
    /\ pc = "dispatch"
    /\ ~args.help /\ ~args.version /\ args.command # "create"
    /\ tsconfig' = readTSConfig(tsconfigFile)
    /\ pc' = "detectSourceDir"
    /\ UNCHANGED <<argv, args, exitCode, tsconfigFile, dirs, dirents, srcDir, entryPoints,
                   outTree, tempDir, manifest, steps, start, update, cwd, project>>

\* const srcDir = await detectSourceDir(tsconfig, args.srcDir);
DetectSourceDir ==
    /\ pc = "detectSourceDir"
    /\ srcDir' = detectSourceDir(tsconfig, args.srcDir, dirs)
    /\ pc' = "detectEntryPoints"
    /\ UNCHANGED <<argv, args, exitCode, tsconfigFile, tsconfig, dirs, dirents,
                   entryPoints, outTree, tempDir, manifest, steps, start, update, cwd,
                   project>>

\* const entryPoints = await detectEntryPoints(srcDir); a throw here is outside
\* the try block: main rejects and the entry point's catch exits with 1
DetectEntryPoints ==
    /\ pc = "detectEntryPoints"
    /\ LET r == detectEntryPoints(srcDir, dirs, dirents)
       IN IF r.threw
          THEN /\ pc' = "exited"
               /\ exitCode' = 1
               /\ UNCHANGED entryPoints
          ELSE /\ entryPoints' = r.files
               /\ pc' = IF args.dryRun THEN "dryRun" ELSE "clean"
               /\ UNCHANGED exitCode
    /\ UNCHANGED <<argv, args, tsconfigFile, tsconfig, dirs, dirents, srcDir, outTree,
                   tempDir, manifest, steps, start, update, cwd, project>>

\* if (args.dryRun) { ...report...; return; }
DryRun ==
    /\ pc = "dryRun"
    /\ pc' = "done"
    /\ exitCode' = 0
    /\ UNCHANGED <<argv, args, tsconfigFile, tsconfig, dirs, dirents, srcDir, entryPoints,
                   outTree, tempDir, manifest, steps, start, update, cwd, project>>

\* --------------------------------------------------- main: the try block
Step(name, ok) == [step |-> name, ok |-> ok]

\* the statement after the ESM compile, and after the declaration emit
AfterTypes == IF args.typeCheck THEN "ensureTypeScript" ELSE "updateManifest"
AfterESM == IF ~args.noTypes /\ tsconfig.present THEN "emitTypes" ELSE AfterTypes

\* if (await fileExists(args.outDir)) await fs.rm(args.outDir, ...)
CleanOutDir ==
    /\ pc = "clean"
    /\ IF fileExists(args.outDir, dirs)
       THEN /\ dirs' = dirs \ {args.outDir}
            /\ outTree' = {t \in outTree : t[1] # args.outDir}
            /\ steps' = Append(steps, Step("clean", TRUE))
       ELSE UNCHANGED <<dirs, outTree, steps>>
    /\ pc' = "writeConfigs"
    /\ UNCHANGED <<argv, args, exitCode, tsconfigFile, tsconfig, dirents, srcDir,
                   entryPoints, tempDir, manifest, start, update, cwd, project>>

\* createTempSWCConfig: mkdir .temp if missing, write <configName>.swcrc
createTempSWCConfig(temp, config, configName) ==
    [exists |-> TRUE,
     configs |-> {c \in temp.configs : c.name # configName}
                 \cup {[name |-> configName, config |-> config]}]

\* both createSWCConfig calls, then both createTempSWCConfig calls
WriteConfigs ==
    /\ pc = "writeConfigs"
    /\ LET cjsConfig == createSWCConfig(tsconfig, "commonjs", srcDir, dirs, dirents)
           esmConfig == createSWCConfig(tsconfig, "es6", srcDir, dirs, dirents)
       IN tempDir' = createTempSWCConfig(createTempSWCConfig(tempDir, cjsConfig, "cjs"),
                                         esmConfig, "esm")
    /\ steps' = Append(steps, Step("writeConfigs", TRUE))
    /\ pc' = "compileCJS"
    /\ UNCHANGED <<argv, args, exitCode, tsconfigFile, tsconfig, dirs, dirents, srcDir,
                   entryPoints, outTree, manifest, start, update, cwd, project>>

\* an external tool writing into `${args.outDir}/<sub>`: on success the
\* subdirectory exists; a failure (execSync throws) goes to the catch block
RunTool(name, sub, ok, next) ==
    /\ steps' = Append(steps, Step(name, ok))
    /\ IF ok
       THEN /\ dirs' = dirs \cup {TemplateStr(args.outDir)}
            /\ outTree' = outTree \cup {<<TemplateStr(args.outDir), sub>>}
            /\ pc' = next
       ELSE /\ UNCHANGED <<dirs, outTree>>
            /\ pc' = "catch"
    /\ UNCHANGED <<argv, args, exitCode, tsconfigFile, tsconfig, dirents, srcDir,
                   entryPoints, tempDir, manifest, start, update, cwd, project>>

\* execSync(`npx swc ${srcDir} -d ${args.outDir}/cjs ...`)
CompileCJS ==
    /\ pc = "compileCJS"
    /\ \E ok \in BOOLEAN : RunTool("cjs", "cjs", ok, "compileESM")

\* a mutant of CompileESM: a failed compile is not propagated
CompileESM_IgnoreFailure ==
    /\ pc = "compileESM"
    /\ \E ok \in BOOLEAN :
         /\ steps' = Append(steps, Step("esm", ok))
         /\ dirs' = dirs \cup {TemplateStr(args.outDir)}
         /\ outTree' = outTree \cup {<<TemplateStr(args.outDir), "esm">>}
         /\ pc' = AfterESM
    /\ UNCHANGED <<argv, args, exitCode, tsconfigFile, tsconfig, dirents, srcDir,
                   entryPoints, tempDir, manifest, start, update, cwd, project>>

\* execSync(`npx swc ${srcDir} -d ${args.outDir}/esm ...`)
CompileESM ==
    /\ pc = "compileESM"
    /\ \E ok \in BOOLEAN : RunTool("esm", "esm", ok, AfterESM)

\* if (!args.noTypes && tsconfig) execSync(`npx tsc --declaration ...`)
EmitTypes ==
    /\ pc = "emitTypes"
    /\ \E ok \in BOOLEAN : RunTool("types", "types", ok, AfterTypes)

\* ensureTypeScriptInstalled: nothing to do when the type checker is found;
\* else install it, and a failed install throws
EnsureTypeScriptInstalled ==
    /\ pc = "ensureTypeScript"
    /\ \E hasTypeScriptInstalled \in BOOLEAN :
         IF hasTypeScriptInstalled
         THEN pc' = "typeCheck" /\ UNCHANGED steps
         ELSE \E ok \in BOOLEAN :
                /\ steps' = Append(steps, Step("installTypeScript", ok))
                /\ pc' = IF ok THEN "typeCheck" ELSE "catch"
    /\ UNCHANGED <<argv, args, exitCode, tsconfigFile, tsconfig, dirs, dirents, srcDir,
                   entryPoints, outTree, tempDir, manifest, start, update, cwd, project>>

\* performTypeCheck: execSync(`npx tsc --noEmit ...`), a failure rethrown
PerformTypeCheck ==
    /\ pc = "typeCheck"
    /\ \E ok \in BOOLEAN :
         /\ steps' = Append(steps, Step("typeCheck", ok))
         /\ pc' = IF ok THEN "updateManifest" ELSE "catch"
    /\ UNCHANGED <<argv, args, exitCode, tsconfigFile, tsconfig, dirs, dirents, srcDir,
                   entryPoints, outTree, tempDir, manifest, start, update, cwd, project>>

\* updatePackageJsonExports applied to the manifest on disk, continuing at
\* next, or at threw when it throws
ManifestStep(next, threw) ==
    /\ LET r == updatePackageJsonExports(entryPoints, args.outDir, args.noTypes, manifest)
       IN /\ manifest' = r.pkg
          /\ update' = r.branch
          /\ steps' = IF r.threw THEN Append(steps, Step("manifest", FALSE))
                      ELSE IF r.wrote THEN Append(steps, Step("manifest", TRUE))
                      ELSE steps
          /\ pc' = IF r.threw THEN threw ELSE next
    /\ UNCHANGED <<argv, args, exitCode, tsconfigFile, tsconfig, dirs, dirents, srcDir,
                   entryPoints, outTree, tempDir, start, cwd, project>>

\* await updatePackageJsonExports(entryPoints, args.outDir, args.noTypes)
UpdateManifest ==
    /\ pc = "updateManifest"
    /\ ManifestStep("finally", "catch")

\* catch (error) { console.error(...); process.exit(1); }: process.exit ends
\* the process at once, so the finally block does not run on this path
CatchExit ==
    /\ pc = "catch"
    /\ exitCode' = 1
    /\ pc' = "exited"
    /\ UNCHANGED <<argv, args, tsconfigFile, tsconfig, dirs, dirents, srcDir, entryPoints,
                   outTree, tempDir, manifest, steps, start, update, cwd, project>>

\* cleanupTempConfigs: remove .temp if it exists
cleanupTempConfigs(temp) == IF temp.exists THEN NoTemp ELSE temp

\* finally { await cleanupTempConfigs(); }, reached when the try block
\* completes; main then returns and the process ends with 0
Finally ==
    /\ pc = "finally"
    /\ tempDir' = cleanupTempConfigs(tempDir)
    /\ steps' = Append(steps, Step("cleanup", TRUE))
    /\ pc' = "done"
    /\ exitCode' = 0
    /\ UNCHANGED <<argv, args, tsconfigFile, tsconfig, dirs, dirents, srcDir, entryPoints,
                   outTree, manifest, start, update, cwd, project>>

\* ---------------------------------------------------------- createProject
\* projectDir = projectName ? path.join(process.cwd(), projectName) : process.cwd()
ProjectDir(projectName, dir) == IF Truthy(projectName) THEN projectName ELSE dir

\* mkdir of the project directory (when named and missing) and of lib
CreateDirs ==
    /\ pc = "createDirs"
    /\ project' = [project EXCEPT !.dirExists = TRUE, !.libExists = TRUE]
    /\ pc' = "createManifest"
    /\ UNCHANGED <<argv, args, exitCode, tsconfigFile, tsconfig, dirs, dirents, srcDir,
                   entryPoints, outTree, tempDir, manifest, steps, start, update, cwd>>

\* package.json: the scripts merged into an existing one, or a new one
\* written; JSON.parse of a malformed one throws out of createProject
CreateManifest ==
    /\ pc = "createManifest"
    /\ IF project.manifest = "malformed"
       THEN /\ pc' = "exited"
            /\ exitCode' = 1
            /\ UNCHANGED project
       ELSE /\ project' = [project EXCEPT !.manifest =
                              IF project.manifest = "absent" THEN "created" ELSE "updated"]
            /\ pc' = "createFiles"
            /\ UNCHANGED exitCode
    /\ UNCHANGED <<argv, args, tsconfigFile, tsconfig, dirs, dirents, srcDir, entryPoints,
                   outTree, tempDir, manifest, steps, start, update, cwd>>

\* tsconfig.json, lib/index.ts and lib/index.test.ts, each only if missing
CreateFiles ==
    /\ pc = "createFiles"
    /\ project' = [project EXCEPT !.tsconfigExists = TRUE, !.indexExists = TRUE,
                                  !.testExists = TRUE]
    /\ pc' = "installChdir"
    /\ UNCHANGED <<argv, args, exitCode, tsconfigFile, tsconfig, dirs, dirents, srcDir,
                   entryPoints, outTree, tempDir, manifest, steps, start, update, cwd>>

\* const originalCwd = process.cwd(); process.chdir(projectDir);
InstallChdir ==
    /\ pc = "installChdir"
    /\ cwd' = ProjectDir(args.projectName, cwd)
    /\ pc' = "installCmplr"
    /\ UNCHANGED <<argv, args, exitCode, tsconfigFile, tsconfig, dirs, dirents, srcDir,
                   entryPoints, outTree, tempDir, manifest, steps, start, update, project>>

\* await install("cmplr"); a rejection goes to the catch block
InstallCmplr ==
    /\ pc = "installCmplr"
    /\ \E ok \in BOOLEAN :
         /\ steps' = Append(steps, Step("install cmplr", ok))
         /\ pc' = IF ok THEN "installTypesNode" ELSE "installCatch"
    /\ UNCHANGED <<argv, args, exitCode, tsconfigFile, tsconfig, dirs, dirents, srcDir,
                   entryPoints, outTree, tempDir, manifest, start, update, cwd, project>>

\* await install("@types/node", true);
InstallTypesNode ==
    /\ pc = "installTypesNode"
    /\ \E ok \in BOOLEAN :
         /\ steps' = Append(steps, Step("install @types/node", ok))
         /\ pc' = IF ok THEN "restoreCwd" ELSE "installCatch"
    /\ UNCHANGED <<argv, args, exitCode, tsconfigFile, tsconfig, dirs, dirents, srcDir,
                   entryPoints, outTree, tempDir, manifest, start, update, cwd, project>>

\* process.chdir(originalCwd), the last statements of the try block
RestoreCwd ==
    /\ pc = "restoreCwd"
    /\ cwd' = start.cwd
    /\ pc' = "createDone"
    /\ UNCHANGED <<argv, args, exitCode, tsconfigFile, tsconfig, dirs, dirents, srcDir,
                   entryPoints, outTree, tempDir, manifest, steps, start, update, project>>

\* catch (error) { console.warn(...) }: the warning only
InstallCatch ==
    /\ pc = "installCatch"
    /\ pc' = "createDone"
    /\ UNCHANGED <<argv, args, exitCode, tsconfigFile, tsconfig, dirs, dirents, srcDir,
                   entryPoints, outTree, tempDir, manifest, steps, start, update, cwd,
                   project>>

\* the closing messages; createProject returns, main returns, exit code 0
CreateDone ==
    /\ pc = "createDone"
    /\ pc' = "done"
    /\ exitCode' = 0
    /\ UNCHANGED <<argv, args, tsconfigFile, tsconfig, dirs, dirents, srcDir, entryPoints,
                   outTree, tempDir, manifest, steps, start, update, cwd, project>>

\* ------------------------------------------------------------------- Spec
Next ==
    \/ ParseArgs
    \/ ShowHelp
    \/ ShowVersion
    \/ EnterCreate
    \/ ReadTSConfig
    \/ DetectSourceDir
    \/ DetectEntryPoints
    \/ DryRun
    \/ CleanOutDir
    \/ WriteConfigs
    \/ CompileCJS
    \/ CompileESM
    \/ EmitTypes
    \/ EnsureTypeScriptInstalled
    \/ PerformTypeCheck
    \/ UpdateManifest
    \/ CatchExit
    \/ Finally
    \/ CreateDirs
    \/ CreateManifest
    \/ CreateFiles
    \/ InstallChdir
    \/ InstallCmplr
    \/ InstallTypesNode
    \/ RestoreCwd
    \/ InstallCatch
    \/ CreateDone

Spec == Init /\ [][Next]_vars

Terminated == pc \in {"done", "exited"}

\* ------------------------------------------- the manifest update by itself
\* directory entries of the manifest-update specification
DirentPool ==
    {File(<<"index", "ts">>), File(<<"index", "js">>), File(<<"utils", "ts">>),
     File(<<"utils", "js">>), File(<<"index", "foo", "ts">>),
     File(<<"utils", "test", "ts">>), Dir(<<"helpers", "ts">>)}

\* a directory holds no two entries of one name
DistinctNames(q) == \A i, j \in 1..Len(q) : i # j => q[i].name # q[j].name

\* a source directory src is listed, then the manifest is updated from it,
\* for every listing, output directory, flag and manifest
InitManifest ==
    /\ argv = <<>>
    /\ \E o \in {"dist", "build"}, n \in BOOLEAN :
         args = [DefaultArgs EXCEPT !.outDir = o, !.noTypes = n]
    /\ pc = "listEntryPoints"
    /\ exitCode = 0
    /\ tsconfigFile = [state |-> "absent", rootDir |-> Undef]
    /\ tsconfig = NoTSConfig
    /\ dirs = {"src"}
    /\ dirents \in {q \in SeqsUpTo(DirentPool, MaxFiles) : DistinctNames(q)}
    /\ srcDir = "src"
    /\ entryPoints = <<>>
    /\ outTree = {}
    /\ tempDir = NoTemp
    /\ manifest \in Manifests
    /\ steps = <<>>
    /\ start = [dirs |-> dirs, outTree |-> {}, manifest |-> manifest, cwd |-> "."]
    /\ update = "none"
    /\ cwd = "."
    /\ project = NoProject

\* entryPoints = await detectEntryPoints(srcDir)
ListEntryPoints ==
    /\ pc = "listEntryPoints"
    /\ entryPoints' = detectEntryPoints(srcDir, dirs, dirents).files
    /\ pc' = "applyUpdate"
    /\ UNCHANGED <<argv, args, exitCode, tsconfigFile, tsconfig, dirs, dirents, srcDir,
                   outTree, tempDir, manifest, steps, start, update, cwd, project>>

\* updatePackageJsonExports(entryPoints, outDir, noTypes)
ApplyUpdate ==
    /\ pc = "applyUpdate"
    /\ ManifestStep("updated", "threw")

NextManifest == ListEntryPoints \/ ApplyUpdate

SpecManifest == InitManifest /\ [][NextManifest]_vars

\* -------------------------------------- the source directory by itself
\* readTSConfig and detectSourceDir for every flag value, configuration
\* file and set of existing conventional directories
InitDetect ==
    /\ argv = <<>>
    /\ \E d \in {Undef, "", "bin", "pkg"} : args = [DefaultArgs EXCEPT !.srcDir = d]
    /\ pc = "dispatch"
    /\ exitCode = 0
    /\ tsconfigFile \in TSConfigFiles \cup {[state |-> "valid", rootDir |-> ""],
                                            [state |-> "valid", rootDir |-> "bin"]}
    /\ tsconfig = NoTSConfig
    /\ dirs \in SUBSET {"src", "lib", "bin"}
    /\ dirents = <<>>
    /\ srcDir = Undef
    /\ entryPoints = <<>>
    /\ outTree = {}
    /\ tempDir = NoTemp
    /\ manifest = NoManifest
    /\ steps = <<>>
    /\ start = [dirs |-> dirs, outTree |-> {}, manifest |-> manifest, cwd |-> "."]
    /\ update = "none"
    /\ cwd = "."
    /\ project = NoProject

NextDetect == ReadTSConfig \/ DetectSourceDir

SpecDetect == InitDetect /\ [][NextDetect]_vars

\* ================================================================== claims
\* the run is a compile run that got past the dry-run check
EnteredTry == IsCompileRun(args) /\ \E i \in DOMAIN steps : steps[i].step = "writeConfigs"

HasStep(name) == \E i \in DOMAIN steps : steps[i].step = name
HasFailedStep == \E i \in DOMAIN steps : ~steps[i].ok

\* C1: every compile run that gets past the dry-run check has removed the
\* scratch directory .temp by the time the process ends, whether the steps
\* succeeded or one of them failed.
C1_ScratchRemovedAtExit == (Terminated /\ EnteredTry) => ~tempDir.exists

\* the place of each step in the documented pipeline order
StepRank(name) ==
    CASE name = "clean" -> 1
      [] name = "writeConfigs" -> 2
      [] name = "cjs" -> 3
      [] name = "esm" -> 4
      [] name = "types" -> 5
      [] name = "installTypeScript" -> 6
      [] name = "typeCheck" -> 7
      [] name = "manifest" -> 8
      [] name = "cleanup" -> 9
      [] OTHER -> 0

\* C2: a compile run executes its steps strictly in the order clean, write
\* configs, CommonJS compile, ESM compile, declaration emit (when enabled),
\* type-checker install and type check (with --type-check), manifest
\* update, skipping none that is enabled; once a step has failed no later
\* step runs, the manifest stays as it was and the process ends with code 1.
C2_PipelineOrderAndAbort ==
    IsCompileRun(args) =>
      /\ \A i, j \in DOMAIN steps : i < j => StepRank(steps[i].step) < StepRank(steps[j].step)
      /\ \A i \in DOMAIN steps :
           LET r == StepRank(steps[i].step) IN
             /\ r > 0
             /\ r > 2 => HasStep("writeConfigs")
             /\ r > 3 => HasStep("cjs")
             /\ r > 4 => HasStep("esm")
             /\ r > 5 => (HasStep("types") <=> (~args.noTypes /\ tsconfig.present))
             /\ r = 6 \/ r = 7 => args.typeCheck
             /\ r > 7 => (HasStep("typeCheck") <=> args.typeCheck)
             /\ ~steps[i].ok => i = Len(steps)
      /\ HasFailedStep =>
           /\ manifest = start.manifest
           /\ pc \in {"catch", "exited"}
           /\ Terminated => exitCode = 1

\* a run whose ESM compile failed after a successful CommonJS compile, ended
\* with a manifest on disk
C2_Witness ==
    /\ IsCompileRun(args)
    /\ pc = "exited"
    /\ manifest.exists
    /\ Len(steps) >= 3
    /\ steps[Len(steps)] = Step("esm", FALSE)
    /\ steps[Len(steps) - 1] = Step("cjs", TRUE)

\* the export key and entry the claims give the i-th entry point
ClaimedKey(file) == IF StartsWithIndexDot(file) THEN <<".">> ELSE <<"./">> \o BaseName(file)

TargetsOf(entry, file) ==
    /\ entry.import = OutPath(args.outDir, "esm", BaseName(file), <<"js">>)
    /\ entry.require = OutPath(args.outDir, "cjs", BaseName(file), <<"js">>)

\* the manifest update has run to its end on an existing manifest
Updated == pc = "updated" /\ manifest.exists

\* C3: for every detected entry-point list with more than one file the
\* export map has exactly one key per file, "." for the primary-named file
\* and "./<basename>" for every other, each with its esm and cjs targets,
\* and no two files share a key.
C3_OneKeyPerFile ==
    (Updated /\ Len(entryPoints) > 1) =>
      /\ Cardinality(DOMAIN manifest.exports) = Len(entryPoints)
      /\ \A i \in 1..Len(entryPoints) :
           /\ ClaimedKey(entryPoints[i]) \in DOMAIN manifest.exports
           /\ TargetsOf(manifest.exports[ClaimedKey(entryPoints[i])], entryPoints[i])

\* the first primary-named entry, or the first entry when there is none
IsMainEntry(i) ==
    \/ /\ StartsWithIndexDot(entryPoints[i])
       /\ \A j \in 1..(i - 1) : ~StartsWithIndexDot(entryPoints[j])
    \/ /\ i = 1
       /\ \A j \in 1..Len(entryPoints) : ~StartsWithIndexDot(entryPoints[j])

C5_NoTypesWritesNoTypes ==
    (Updated /\ args.noTypes) =>
      /\ start.manifest.types = NoPath => manifest.types = NoPath
      /\ manifest.types = start.manifest.types
      /\ \A k \in DOMAIN manifest.exports : "types" \notin DOMAIN manifest.exports[k]

\* a multi-entry update with the flag set on a manifest that had no types
C5_Witness ==
    /\ Updated
    /\ args.noTypes
    /\ update = "multi"
    /\ Cardinality(DOMAIN manifest.exports) >= 2
    /\ start.manifest.types = NoPath

\* a value was supplied: JavaScript takes undefined and "" for absent
Given(x) == x # Undef /\ x # ""

\* the configuration file declares a root directory
HintOf(file) == IF file.state = "valid" /\ Given(file.rootDir) THEN file.rootDir ELSE Undef

\* C6: the source directory is the --src-dir value if given; else the
\* configuration's rootDir if present; else the first of src, lib, bin that
\* exists; else "src".  A higher signal wins whatever the lower ones are,
\* and nothing on disk is changed.
C6_SourceDirPrecedence ==
    pc = "detectEntryPoints" =>
      /\ Given(args.srcDir) => srcDir = args.srcDir
      /\ (~Given(args.srcDir) /\ Given(HintOf(tsconfigFile))) => srcDir = HintOf(tsconfigFile)
      /\ (~Given(args.srcDir) /\ ~Given(HintOf(tsconfigFile))) =>
           /\ "src" \in dirs => srcDir = "src"
           /\ ("src" \notin dirs /\ "lib" \in dirs) => srcDir = "lib"
           /\ ("src" \notin dirs /\ "lib" \notin dirs /\ "bin" \in dirs) => srcDir = "bin"
           /\ (dirs \cap {"src", "lib", "bin"} = {}) => srcDir = "src"
      /\ dirs = start.dirs
      /\ tsconfigFile.state = "malformed" => ~tsconfig.present

\* the flag wins over a configuration hint and over existing directories
C6_Witness ==
    /\ pc = "detectEntryPoints"
    /\ args.srcDir = "pkg"
    /\ HintOf(tsconfigFile) = "lib"
    /\ dirs = {"src", "lib", "bin"}
    /\ srcDir = "pkg"

\* the run has resolved a source directory that does not exist
MissingSourceDir == IsCompileRun(args) /\ srcDir # Undef /\ srcDir \notin start.dirs

\* C7: when the resolved source directory does not exist, a compile run,
\* dry or not, ends with exit code 1 and without a side effect: the output
\* directory is not deleted, created or modified, no scratch config is
\* written, no external tool runs and the manifest is not rewritten.
C7_MissingSourceDirNoEffect ==
    MissingSourceDir =>
      /\ dirs = start.dirs
      /\ outTree = start.outTree
      /\ manifest = start.manifest
      /\ ~tempDir.exists
      /\ steps = <<>>
      /\ pc \in {"detectEntryPoints", "exited"}
      /\ Terminated => exitCode = 1

\* a run on a missing source directory, ended, beside an output directory
\* and a manifest
C7_Witness ==
    /\ MissingSourceDir
    /\ pc = "exited"
    /\ exitCode = 1
    /\ "dist" \in dirs
    /\ manifest.exists

\* the argument list ends with a value-taking flag that has no value
ValueFlags == {"--src-dir", "--out-dir"}
ValueFlagLast(a) ==
    /\ Len(a) >= 1
    /\ a[Len(a)] \in ValueFlags
    /\ \A i \in 1..(Len(a) - 1) : a[i] \notin ValueFlags

\* the request the same argument list gives without its last token
AsIfAbsent(a) == parseArgs(SubSeq(a, 1, Len(a) - 1))

\* C8: when --src-dir or --out-dir is the last token, the run behaves as
\* if the flag had not been given: the source directory is auto-detected
\* and all output goes to the default directory dist.
C8_ValueFlagLastIsAbsent ==
    (ValueFlagLast(argv) /\ IsCompileRun(args) /\ pc # "parseArgs") =>
      /\ srcDir # Undef => srcDir = detectSourceDir(tsconfig, AsIfAbsent(argv).srcDir, start.dirs)
      /\ \A t \in outTree \ start.outTree : t[1] = AsIfAbsent(argv).outDir
      /\ HasStep("manifest") /\ manifest.exists =>
           \E i \in 1..Len(entryPoints) :
             manifest.main = OutPath(AsIfAbsent(argv).outDir, "cjs",
                                     BaseName(entryPoints[i]), <<"js">>)

\* C9: after createProject the working directory is the one it was called
\* in, whether the installs succeeded or one of them failed.
C9_CwdRestored == pc = "createDone" => cwd = start.cwd

\* the manifest advertises declaration paths written in this run
AdvertisesTypes ==
    \/ manifest.types # start.manifest.types
    \/ \E k \in DOMAIN manifest.exports : "types" \in DOMAIN manifest.exports[k]

\* C10: in a compile run that ends successfully the manifest's types field
\* and the types sub-fields of its exports are written only if the
\* declaration emit ran in that run.
C10_TypesOnlyIfEmitted ==
    (pc = "done" /\ exitCode = 0 /\ EnteredTry /\ AdvertisesTypes) => HasStep("types")

\* every external tool the run called (compiler, type checker, installer)
\* succeeded
AllToolsSucceeded == \A i \in DOMAIN steps : steps[i].step # "manifest" => steps[i].ok

\* C11: for every entry-point list the detector can return, the empty list
\* included, a compile run in which every external tool succeeds and a
\* manifest exists completes the manifest update without error and ends
\* with exit code 0.
C11_UpdateCompletesForEveryList ==
    (Terminated /\ EnteredTry /\ start.manifest.exists /\ AllToolsSucceeded) =>
      /\ pc = "done"
      /\ exitCode = 0
      /\ HasStep("manifest") /\ ~HasFailedStep

====
